---- MODULE Spec2Model ----
(***************************************************************************)
(* Creator Newsdesk: the news pipeline (cnd_news_pipeline.main) and the    *)
(* hourly image worker (cnd-image-worker-hourly.process_posts).            *)
(*                                                                         *)
(* Both programs are single-threaded scripts that make blocking HTTP calls *)
(* and keep their state in flat JSON files.  Every outbound call is one    *)
(* action whose outcome (2xx, other status, exception) is chosen by the    *)
(* collaborator; the control flow around the call is the code's.           *)
(* Timestamps are whole seconds.                                           *)
(***************************************************************************)
EXTENDS Integers, Sequences, FiniteSets, TLC

(***************************************************************************)
(* Bounds of the model.                                                    *)
(***************************************************************************)
MaxFetches == 2
MaxResults == 2
MaxWorkerRuns == 2
MaxWorkerPosts == 2
MaxCap == 2
MaxTicks == 4
MaxLines == 3
MaxFileLen == 2
MaxKeys == 2
MaxQueries == 3
MaxRuns == 3
MaxSyncs == 2

(***************************************************************************)
(* Program constants.                                                      *)
(***************************************************************************)
MinWords == 400
MaxAgeDays == 7
BraveMaxAgeDays == 1
HourSeconds == 3600
DaySeconds == 86400
TitleMax == 200
DescriptionMax == 500

URLS == {"http://example.com/a", "http://example.com/b"}
TagNames == {"dji"}
NoneAge == -1
NoPost == 0
NoMedia == 0
NoLimit == -1

\* The age strings a search result or feed item may carry.
AgeStrings == {"", "1 day ago", "2 weeks ago", "Sat, 21 Feb 2026"}

VARIABLES
    \* ---- configuration (environment, config.json)
    PUBLISH_MODE,      \* "draft" or "publish"
    MAX_ARTICLES,      \* NoLimit when the variable is unset
    HAS_SOCIAL,        \* social_poster was importable
    BRAVE_API_KEY,     \* the search API key of the site, "" when there is none
    WP_APP_PASSWORD,   \* the WordPress user's password, "" when there is none
    brave_keys,        \* the site's list of search API keys, empty when none is given
    \* ---- news pipeline
    processed_file,    \* .processed_urls.json
    processed_urls,    \* the in-memory set of main()
    stats,             \* main()'s counters
    ppc,               \* position of main()
    search_queries,    \* number of search queries built from config.json
    fetches,           \* query iterations of all runs so far
    qi,                \* index of the current search query
    articles,          \* articles of the current query not yet examined
    article,           \* the article being processed
    tag_queue,         \* tag names of the rewrite not yet sent to WordPress
    post_id,           \* id returned by create_wp_post (NoPost for None)
    media_id,          \* id returned by upload_media_to_wp (NoMedia for None)
    wp_posts,          \* the posts on WordPress, by id
    calls,             \* requests sent in this run, per URL
    generated_content, \* the lines of an LLM answer that is known beforehand
    keys_used,         \* the api_key of every search query of this run, in order
    fetch_answers,     \* what the feeds and the search return, when known beforehand
    \* ---- image worker
    HOURLY_CAP, DAILY_CAP, RUN_ENABLED,
    usage_file,        \* .cnd_image_usage.json
    now,               \* time.time()
    ticks,             \* clock steps taken
    wpc,               \* position of the worker's main()/process_posts()
    wruns,             \* worker runs started so far
    posts,             \* posts of process_posts not yet handled
    image_url,         \* whether a provider returned an image URL
    wstats,            \* process_posts' counters
    provider_calls,    \* requests sent to the image providers in this run
    rate_limit_reached, \* "Rate limit reached, stopping" was printed in this run
    \* ---- the other state files and what the loaders returned
    cache_file,        \* .wp_cache.json
    wp_cache,          \* the global wp_cache of the pipeline
    status_file,       \* pipeline_status.json
    loaded_status,     \* what load_status returned to the dashboard
    loaded_usage,      \* what load_usage returned to the worker
    fpc,               \* the loads and saves done so far
    \* ---- the article fetcher
    item,              \* one result of the search API, as it came
    emitted,           \* the article record built from it
    \* ---- wordpress_taxonomy.sync_taxonomy
    wp_categories,     \* the names of the categories on WordPress
    structure,         \* the category and brand names of config.json, in order
    existing_cats,     \* what fetch_wp_categories returned
    todo,              \* the names of the structure not yet handled
    category_requests, \* the names sent to create_wp_category in this run
    spc,               \* position of sync_taxonomy
    syncs,             \* runs of sync_taxonomy started so far
    \* ---- two processes of a program at the same time
    procs,             \* two processes of cnd_news_pipeline.main()
    workers            \* two processes of the image worker

config_vars == <<PUBLISH_MODE, MAX_ARTICLES, HAS_SOCIAL, BRAVE_API_KEY, WP_APP_PASSWORD,
                 brave_keys>>
pipeline_vars == <<processed_file, processed_urls, stats, ppc, search_queries,
                   fetches, qi, articles,
                   article, tag_queue, post_id, media_id, wp_posts, calls,
                   generated_content, keys_used, fetch_answers>>
worker_config == <<HOURLY_CAP, DAILY_CAP, RUN_ENABLED>>
worker_vars == <<usage_file, now, ticks, wpc, wruns, posts, image_url, wstats,
                 provider_calls, rate_limit_reached>>
cache_vars == <<cache_file, wp_cache>>
files_vars == <<status_file, loaded_status, loaded_usage, fpc>>
fetcher_vars == <<item, emitted>>
taxonomy_vars == <<wp_categories, structure, existing_cats, todo, category_requests, spc,
                   syncs>>
race_vars == <<procs, workers>>
vars == <<config_vars, pipeline_vars, worker_config, worker_vars, cache_vars, files_vars,
          fetcher_vars, taxonomy_vars, race_vars>>

(***************************************************************************)
(* Helpers.                                                                *)
(***************************************************************************)
Range(s) == {s[i] : i \in DOMAIN s}

RECURSIVE SeqsUpTo(_, _)
SeqsUpTo(S, n) ==
    IF n = 0 THEN {<<>>}
    ELSE LET shorter == SeqsUpTo(S, n - 1)
         IN shorter \cup {Append(s, x) : s \in {t \in shorter : Len(t) = n - 1}, x \in S}

\* list(urls): the elements of a set in some order.
ListsOf(S) == {s \in [1..Cardinality(S) -> S] : Range(s) = S}

Take(s, n) == IF n >= Len(s) THEN s ELSE SubSeq(s, 1, n)

(***************************************************************************)
(* The dedup ledger file.                                                  *)
(***************************************************************************)
\* A state file: whether it exists, whether its content parses as JSON, and
\* the value it holds (what is left of it when it does not parse).
MissingFile == [exists |-> FALSE, json |-> FALSE, data |-> <<>>]

\* Whether the content of a file can be read: os.path.exists and json.load.
Readable(file) == file.exists /\ file.json

\* Every state a file may be in: missing, corrupt or sound, with any content.
FileStates(missing, contents) ==
    {missing} \cup [exists : {TRUE}, json : BOOLEAN, data : contents]

load_processed_Mut == {}

\* load_processed: set(json.load(...)), the empty set when the file is missing.
load_processed == IF Readable(processed_file) THEN Range(processed_file.data) ELSE {}

save_processed_Mut(urls) ==
    {[exists |-> TRUE, json |-> TRUE, data |-> Take(l, 1)] : l \in ListsOf(urls)}

\* save_processed: json.dump(list(urls)), the file written whole.
save_processed(urls) == {[exists |-> TRUE, json |-> TRUE, data |-> l] : l \in ListsOf(urls)}

(***************************************************************************)
(* The WordPress cache file and the run-status file.                       *)
(***************************************************************************)
\* The cache as the set of its keys; wp_cache = {} at the start of a process.
EmptyCache == {}
CacheContents == {EmptyCache, {"categories", "tags"}}
MissingCache == [exists |-> FALSE, json |-> FALSE, data |-> EmptyCache]

\* load_wp_cache: the parsed file; {} when it does not parse; the global as
\* it is, {} in a new process, when there is no file.
load_wp_cache ==
    IF Readable(cache_file) THEN cache_file.data
    ELSE IF cache_file.exists THEN EmptyCache ELSE wp_cache

\* save_wp_cache: the file written whole.
save_wp_cache == [exists |-> TRUE, json |-> TRUE, data |-> wp_cache]

\* dashboard_server.default_status, by its running flag and its counters.
default_status == [running |-> FALSE, created |-> 0]
StatusContents == {default_status, [running |-> TRUE, created |-> 1]}
MissingStatus == [exists |-> FALSE, json |-> FALSE, data |-> default_status]

load_status_Mut == status_file.data

\* load_status: the parsed file, a copy of default_status when the file is
\* missing or does not parse.
load_status == IF Readable(status_file) THEN status_file.data ELSE default_status

(***************************************************************************)
(* Article ages.                                                           *)
(***************************************************************************)
\* get_article_age_days: "hour" -> 0; "day"/"week"/"month" with a number ->
\* days; anything else -> None.
get_article_age_days(age_str) ==
    CASE age_str = "" -> NoneAge
      [] age_str = "3 hours ago" -> 0
      [] age_str = "1 day ago" -> 1
      [] age_str = "2 weeks ago" -> 14
      [] OTHER -> NoneAge

\* Feed items: image is always empty; age is the pubDate text; pub_days is the
\* age in days computed from published_time (NoneAge when it does not parse).
RssArticles ==
    {[url |-> u, age |-> "Sat, 21 Feb 2026", image |-> FALSE, source |-> "rss",
      pub_days |-> d] : u \in URLS, d \in {NoneAge, 8}}

\* Search results as search_brave returns them.
BraveArticles ==
    {[url |-> u, age |-> a, image |-> i, source |-> "brave", pub_days |-> NoneAge] :
        u \in URLS, a \in AgeStrings \ {"Sat, 21 Feb 2026"}, i \in BOOLEAN}

NoArticle == [url |-> "", age |-> "", image |-> FALSE, source |-> "", pub_days |-> NoneAge]

\* No feed item and an empty search result.
NoAnswers == [rss_articles |-> <<>>, brave |-> [status |-> 200, results |-> <<>>]]

\* main(), lines 1090-1093: only results at most a day old that carry an image.
BraveKept(ba) ==
    LET age == get_article_age_days(ba.age)
    IN age # NoneAge /\ age <= BraveMaxAgeDays /\ ba.image

FilterBrave(brave_articles) == SelectSeq(brave_articles, BraveKept)

\* main(), lines 1117-1128: the age used by the 7-day filter.
article_age_days(a) ==
    IF a.source = "rss" /\ a.pub_days # NoneAge
    THEN a.pub_days
    ELSE get_article_age_days(a.age)

ZeroStats == [fetched |-> 0, processed |-> 0, created |-> 0, skipped |-> 0, errors |-> 0]
ZeroCalls == [llm |-> [u \in URLS |-> 0], create |-> [u \in URLS |-> 0],
              publish |-> 0, social |-> 0, tag |-> [name \in TagNames |-> 0]]

(***************************************************************************)
(* The text fields of an article.  A text is the list of its runs: maximal *)
(* stretches of whitespace or of other characters, each with its length.   *)
(***************************************************************************)
RunLengths == {1, 199, 600}
Runs == [ws : BOOLEAN, len : RunLengths]
Texts == SeqsUpTo(Runs, MaxRuns)

RECURSIVE text_len(_)
text_len(s) == IF s = <<>> THEN 0 ELSE Head(s).len + text_len(Tail(s))

\* re.sub(r"\s+", " ", s): every stretch of whitespace becomes one space.
RECURSIVE collapse(_)
collapse(s) ==
    IF s = <<>> THEN <<>>
    ELSE LET rest == collapse(Tail(s))
         IN IF ~Head(s).ws THEN <<Head(s)>> \o rest
            ELSE IF rest # <<>> /\ Head(rest).ws THEN rest
            ELSE <<[ws |-> TRUE, len |-> 1]>> \o rest

\* s.strip(): the whitespace at both ends goes.
RECURSIVE lstrip(_)
lstrip(s) == IF s # <<>> /\ Head(s).ws THEN lstrip(Tail(s)) ELSE s

RECURSIVE rstrip(_)
rstrip(s) ==
    IF s # <<>> /\ s[Len(s)].ws THEN rstrip(SubSeq(s, 1, Len(s) - 1)) ELSE s

strip(s) == rstrip(lstrip(s))

\* s[:n]: the first n characters.
RECURSIVE truncate(_, _)
truncate(s, n) ==
    IF s = <<>> \/ n <= 0 THEN <<>>
    ELSE IF Head(s).len >= n THEN <<[Head(s) EXCEPT !.len = n]>>
    ELSE <<Head(s)>> \o truncate(Tail(s), n - Head(s).len)

\* brave_fetch_news.clamp: collapse, strip, then cut to n characters.
clamp(s, n) == truncate(strip(collapse(s)), n)

\* The results the search API may return: any title, a description of at
\* most one run, a URL without whitespace.
RawItems ==
    [title : Texts,
     description : SeqsUpTo(Runs, 1),
     url : {<<[ws |-> FALSE, len |-> l]>> : l \in RunLengths}]

NoItem == [title |-> <<>>, description |-> <<>>, url |-> <<>>]
NoEmitted == [by |-> "", title |-> <<>>, description |-> <<>>, url |-> <<>>]

FetcherIdle == item = NoItem /\ emitted = NoEmitted

(***************************************************************************)
(* The categories of WordPress and of config.json, by name.                *)
(***************************************************************************)
CategoryNames == {"Drones", "DJI", "dji"}

\* str.lower().
lower(name) ==
    CASE name = "Drones" -> "drones"
      [] name = "DJI" -> "dji"
      [] OTHER -> name

\* The sets of categories WordPress may hold: no two names that differ only
\* in the case of their letters.
CategorySets ==
    {S \in SUBSET CategoryNames : \A a, b \in S : lower(a) = lower(b) => a = b}

\* The category and brand names config.json may list, as structure.items()
\* and brands.items() yield them.
Structures == {<<"Drones">>, <<"Drones", "DJI">>, <<"dji", "DJI">>}

TaxonomyIdle ==
    /\ wp_categories = {}
    /\ structure = <<>>
    /\ existing_cats = {}
    /\ todo = <<>>
    /\ category_requests = <<>>
    /\ spc = "idle"
    /\ syncs = 0

(***************************************************************************)
(* Two processes of one program.  Each has its own locals; the state files *)
(* are the ones of the single process.                                     *)
(***************************************************************************)
ProcIds == {1, 2}

\* The other process.
Other(p) == CHOOSE q \in ProcIds : q # p

\* A process of main() before it started: its position, its processed_urls,
\* the URLs that passed its dedup check, and whether it ran while the other
\* process was between its load and its save.
IdleProc == [pc |-> "idle", processed_urls |-> {}, handled |-> {}, overlapped |-> FALSE]

\* A worker process before it started: its position, the posts left, the
\* usage list record_usage loaded, the timestamps it recorded, and whether
\* it ran while the other worker was between its check and its save.
IdleWorkerProc ==
    [pc |-> "idle", left |-> 0, usage |-> <<>>, stamps |-> <<>>, overlapped |-> FALSE]

RaceIdle ==
    /\ procs = [p \in ProcIds |-> IdleProc]
    /\ workers = [w \in ProcIds |-> IdleWorkerProc]

(***************************************************************************)
(* Initial state.                                                          *)
(***************************************************************************)
ZeroWStats == [attempted |-> 0, generated |-> 0, uploaded |-> 0, failed |-> 0, skipped |-> 0]

\* The site of config.json has its search key and its WordPress password.
Credentials ==
    /\ BRAVE_API_KEY = "key"
    /\ WP_APP_PASSWORD = "secret"
    /\ brave_keys = <<>>

PipelineConfig ==
    /\ Credentials
    /\ PUBLISH_MODE \in {"draft", "publish"}
    /\ MAX_ARTICLES \in {NoLimit, 1}
    /\ HAS_SOCIAL \in BOOLEAN

PipelineIdle ==
    /\ processed_file = MissingFile
    /\ processed_urls = {}
    /\ stats = ZeroStats
    /\ ppc = "idle"
    /\ search_queries = 0
    /\ fetches = 0
    /\ qi = 0
    /\ articles = <<>>
    /\ article = NoArticle
    /\ tag_queue = <<>>
    /\ post_id = NoPost
    /\ media_id = NoMedia
    /\ wp_posts = <<>>
    /\ calls = ZeroCalls
    /\ generated_content = <<>>
    /\ keys_used = <<>>
    /\ fetch_answers = NoAnswers

WorkerConfig ==
    /\ HOURLY_CAP \in 1..MaxCap
    /\ DAILY_CAP \in 1..MaxCap
    /\ RUN_ENABLED \in BOOLEAN

NoFileOps == [ledger |-> "start", usage |-> FALSE, status |-> FALSE]

FilesIdle ==
    /\ cache_file = MissingCache
    /\ wp_cache = EmptyCache
    /\ status_file = MissingStatus
    /\ loaded_status = default_status
    /\ loaded_usage = <<>>
    /\ fpc = NoFileOps

WorkerIdle ==
    /\ usage_file = MissingFile
    /\ now = 0
    /\ ticks = 0
    /\ wpc = "idle"
    /\ wruns = 0
    /\ posts = <<>>
    /\ image_url = FALSE
    /\ wstats = ZeroWStats
    /\ provider_calls = 0
    /\ rate_limit_reached = FALSE

Init == PipelineConfig /\ PipelineIdle /\ WorkerConfig /\ WorkerIdle /\ FilesIdle /\ FetcherIdle /\ TaxonomyIdle /\ RaceIdle

(***************************************************************************)
(* cnd_news_pipeline.main(): one action per outbound call.  The locals of  *)
(* an iteration (article, post_id, media_id, tag names) are dead once the  *)
(* iteration ends and are cleared there.                                   *)
(***************************************************************************)
PipelineFrame ==
    UNCHANGED <<config_vars, worker_config, worker_vars, generated_content, fetch_answers,
                files_vars, fetcher_vars, taxonomy_vars, race_vars>>

CacheFrame == UNCHANGED cache_vars

KeyFrame == UNCHANGED keys_used

Bump(rec, field) == [rec EXCEPT ![field] = @ + 1]
BumpUrl(field, u) == [calls EXCEPT ![field][u] = @ + 1]

ClearLocals ==
    /\ article' = NoArticle
    /\ tag_queue' = <<>>
    /\ post_id' = NoPost
    /\ media_id' = NoMedia

\* continue: back to the head of the article loop.
Continue ==
    /\ ppc' = "article"
    /\ ClearLocals
    /\ UNCHANGED <<qi, articles>>

\* Break with continue in its place.
Break_Mut ==
    /\ ppc' = "article"
    /\ ClearLocals
    /\ UNCHANGED <<qi, articles>>

\* break: the rest of the query's articles is dropped.
Break ==
    /\ ppc' = "query"
    /\ qi' = qi + 1
    /\ articles' = <<>>
    /\ ClearLocals

\* Lines 1023-1074: load the configuration and the ledger, zero the counters,
\* return at once when config.json names no site, build the queries.
StartRun ==
    /\ ppc \in {"idle", "done", "aborted"}
    /\ fetches < MaxFetches
    /\ processed_urls' = load_processed
    /\ stats' = ZeroStats
    /\ calls' = ZeroCalls
    /\ qi' = 0
    /\ articles' = <<>>
    /\ ClearLocals
    /\ \/ /\ ppc' = "done"
          /\ UNCHANGED search_queries
       \/ /\ search_queries' \in 1..(MaxFetches - fetches)
          /\ ppc' = "query"
    /\ wp_cache' = load_wp_cache
    /\ keys_used' = <<>>
    /\ UNCHANGED <<processed_file, fetches, wp_posts, cache_file>>
    /\ PipelineFrame

\* What the search API may answer: a status and the results of the body; no
\* status at all (0) when requests.get raises.
SearchResponses(n) ==
    [status : {0, 200, 429}, results : SeqsUpTo(BraveArticles, n)]

search_brave_Mut(resp) == resp.results

\* search_brave: the results of a 200 answer; the empty list for any other
\* status and for any exception.
search_brave(resp) == IF resp.status = 200 THEN resp.results ELSE <<>>

\* Lines 1084-1093: the feed items, then the search results that pass the
\* filter, for every answer the feeds and the search may give.
fetched(rss_articles, resp) == rss_articles \o FilterBrave(search_brave(resp))

\* The answers of the feeds and of the search to one query.
FetchAnswers ==
    UNION {[rss_articles : {rss_articles},
            brave : SearchResponses(MaxResults - Len(rss_articles))] :
           rss_articles \in SeqsUpTo(RssArticles, MaxResults)}

FetchedLists == {fetched(ans.rss_articles, ans.brave) : ans \in FetchAnswers}

\* Lines 1071-1074: the keys of the site, the key of the environment when
\* the site has none.
run_keys == IF brave_keys = <<>> THEN <<BRAVE_API_KEY>> ELSE brave_keys

api_key_Mut(i) == run_keys[1]

\* Line 1079: api_key = brave_keys[i % len(brave_keys)].
api_key(i) == run_keys[(i % Len(run_keys)) + 1]

\* Lines 1077-1100: the feeds are fetched again for every query, the search
\* results are filtered and appended, fetched counts them all, MAX_ARTICLES
\* truncates the list.
FetchQueryWith(all) ==
    /\ ppc = "query"
    /\ qi < search_queries
    /\ fetches' = fetches + 1
    /\ stats' = [stats EXCEPT !.fetched = @ + Len(all)]
    /\ articles' = IF MAX_ARTICLES # NoLimit THEN Take(all, MAX_ARTICLES) ELSE all
    /\ keys_used' = Append(keys_used, api_key(qi))
    /\ ppc' = "article"
    /\ UNCHANGED <<processed_file, processed_urls, search_queries, qi, article,
                   tag_queue, post_id, media_id, wp_posts, calls>>
    /\ PipelineFrame /\ CacheFrame

\* The fetch of a query, whatever the feeds and the search return.
FetchQuery == \E all \in FetchedLists : FetchQueryWith(all)

\* The fetch of a query for the answers known beforehand.
FetchGiven == FetchQueryWith(fetched(fetch_answers.rss_articles, fetch_answers.brave))

\* The article loop of a query is exhausted: on to the next query.
NextQuery ==
    /\ ppc = "article"
    /\ articles = <<>>
    /\ qi' = qi + 1
    /\ ppc' = "query"
    /\ UNCHANGED <<processed_file, processed_urls, stats, search_queries, fetches, articles, article,
                   tag_queue, post_id, media_id, wp_posts, calls>>
    /\ PipelineFrame /\ CacheFrame /\ KeyFrame

has_seen_Mut(urls, url) == FALSE

\* Lines 1105-1106: the dedup check, URLs compared as they are.
has_seen(urls, url) == url \in urls

mark_seen_Mut(urls, url) == urls

\* Lines 1110-1111: a URL that passed the dedup check is marked at once.
mark_seen(urls, url) == urls \cup {url}

too_old_Mut(age) == FALSE

too_old_Strict(age) == age = NoneAge \/ age > MaxAgeDays

\* Lines 1130-1131: an article of known age is dropped when older than 7 days.
too_old(age) == age # NoneAge /\ age > MaxAgeDays

\* Lines 1102-1133: the dedup check, the mark, the 7-day filter.
ExamineArticle ==
    /\ ppc = "article"
    /\ articles # <<>>
    /\ LET a == Head(articles)
           url == a.url
           age == article_age_days(a)
       IN /\ articles' = Tail(articles)
          /\ IF has_seen(processed_urls, url)
             THEN /\ stats' = Bump(stats, "skipped")
                  /\ UNCHANGED <<processed_urls, article, ppc>>
             ELSE /\ processed_urls' = mark_seen(processed_urls, url)
                  /\ IF too_old(age)
                     THEN /\ stats' = Bump(stats, "skipped")
                          /\ UNCHANGED <<article, ppc>>
                     ELSE /\ article' = a
                          /\ ppc' = "rewrite"
                          /\ UNCHANGED stats
    /\ UNCHANGED <<processed_file, search_queries, fetches, qi, tag_queue, post_id, media_id, wp_posts,
                   calls>>
    /\ PipelineFrame /\ CacheFrame /\ KeyFrame

\* The lines an LLM answer may be made of: a key, the number of words after
\* the key, and the tag names of a TAGS line.  A line without a key is free
\* text.
AnswerLines ==
    {[key |-> "HEADLINE", words |-> 5, tags |-> <<>>],
     [key |-> "META", words |-> 10, tags |-> <<>>],
     [key |-> "TAGS", words |-> 1, tags |-> <<"dji">>],
     [key |-> "ARTICLE", words |-> 250, tags |-> <<>>],
     [key |-> "ARTICLE", words |-> 400, tags |-> <<>>],
     [key |-> "", words |-> 400, tags |-> <<>>]}

\* What generate_with_llm may return: the empty string (no line) on any
\* failure, some lines otherwise.
LlmResponses == SeqsUpTo(AnswerLines, MaxLines)

\* len(text.split()) of the whole answer: a key is a word of its own.
RECURSIVE total_words(_)
total_words(lines) ==
    IF lines = <<>> THEN 0
    ELSE (IF Head(lines).key = "" THEN 0 ELSE 1) + Head(lines).words
         + total_words(Tail(lines))

\* The last line of the answer that starts with the key, 0 when there is none.
last_line(lines, key) ==
    LET hits == {i \in DOMAIN lines : lines[i].key = key}
    IN IF hits = {} THEN 0 ELSE CHOOSE i \in hits : \A j \in hits : j <= i

\* Lines 1166-1193: the title is the HEADLINE line, the cleaned title of the
\* source article when there is none; the body is the ARTICLE line, the whole
\* answer when there is none; the tags are those of the TAGS line.
parse_llm_response(lines) ==
    LET h == last_line(lines, "HEADLINE")
        a == last_line(lines, "ARTICLE")
        g == last_line(lines, "TAGS")
    IN [seo_title  |-> IF h = 0 THEN "clean_title" ELSE "headline",
        tag_names  |-> IF g = 0 THEN <<>> ELSE lines[g].tags,
        word_count |-> IF a = 0 THEN total_words(lines) ELSE lines[a].words]

quality_reject_Mut(word_count) == word_count < 250

\* Lines 1195-1196: a body under 400 words is too short.
quality_reject(word_count) == word_count < MinWords

\* Lines 1162-1199: what main() does with an answer: an error for the empty
\* answer, a skip for a short body, the post otherwise.
rewrite_outcome(lines) ==
    IF lines = <<>> THEN [result |-> "error", tag_names |-> <<>>]
    ELSE LET parsed == parse_llm_response(lines)
         IN IF quality_reject(parsed.word_count)
            THEN [result |-> "skipped", tag_names |-> <<>>]
            ELSE [result |-> "post", tag_names |-> parsed.tag_names]

RewriteOutcomes == {rewrite_outcome(lines) : lines \in LlmResponses}

\* Lines 1136-1199: the rewrite request, the parse, the word-count gate.
RewriteWith(outcome) ==
    /\ ppc = "rewrite"
    /\ calls' = BumpUrl("llm", article.url)
    /\ CASE outcome.result = "error" ->
               /\ stats' = Bump(stats, "errors")
               /\ Continue
         [] outcome.result = "skipped" ->
               /\ stats' = Bump(stats, "skipped")
               /\ Continue
         [] OTHER ->
               /\ tag_queue' = outcome.tag_names
               /\ ppc' = "tags"
               /\ UNCHANGED <<stats, qi, articles, article, post_id, media_id>>
    /\ UNCHANGED <<processed_file, processed_urls, search_queries, fetches, wp_posts>>
    /\ PipelineFrame /\ CacheFrame /\ KeyFrame

\* The rewrite step, whatever the LLM answers.
Rewrite == \E outcome \in RewriteOutcomes : RewriteWith(outcome)

\* The rewrite step for the answer known beforehand.
RewriteGiven == RewriteWith(rewrite_outcome(generated_content))

\* Lines 1201-1206: one create_wp_tag request per tag name of the rewrite,
\* with no look at wp_cache or at the names created before; the id it
\* returns, or None, only decides the tags of the post.
ResolveTag ==
    /\ ppc = "tags"
    /\ tag_queue # <<>>
    /\ calls' = [calls EXCEPT !.tag[Head(tag_queue)] = @ + 1]
    /\ tag_queue' = Tail(tag_queue)
    /\ UNCHANGED <<processed_file, processed_urls, stats, ppc, search_queries, fetches, qi, articles,
                   article, post_id, media_id, wp_posts>>
    /\ PipelineFrame /\ CacheFrame /\ KeyFrame

\* create_wp_post, lines 709-722: the meta fields of a new post are the two
\* Yoast SEO fields and the Jetpack social message, nothing else.  source_url
\* is the article the post was written from, "" for a policy reminder.
PostMeta ==
    [k \in {"_yoast_wpseo_title", "_yoast_wpseo_metadesc", "jetpack_publicize_message"} |-> "text"]

NewPost(kind, status, url) ==
    [kind |-> kind, status |-> status, featured_media |-> NoMedia, meta |-> PostMeta,
     source_url |-> url]

post_status_Mut == "publish"

\* Line 1136: every article post is created as a draft.
post_status == "draft"

\* Lines 1220-1238 and 1283-1292: create the post; without a post, count an
\* error; without an image URL, count the post and go on.
CreatePost ==
    /\ ppc = "tags"
    /\ tag_queue = <<>>
    /\ calls' = BumpUrl("create", article.url)
    /\ \/ /\ wp_posts' = Append(wp_posts, NewPost("article", post_status, article.url))
          /\ IF article.image
             THEN /\ post_id' = Len(wp_posts) + 1
                  /\ ppc' = "media"
                  /\ UNCHANGED <<stats, qi, articles, article, tag_queue, media_id>>
             ELSE /\ stats' = Bump(Bump(stats, "created"), "processed")
                  /\ Continue
       \/ /\ stats' = Bump(Bump(stats, "errors"), "processed")
          /\ Continue
          /\ UNCHANGED wp_posts
    /\ UNCHANGED <<processed_file, processed_urls, search_queries, fetches>>
    /\ PipelineFrame /\ CacheFrame /\ KeyFrame

\* UploadMedia without the test of the media id: the publish sequence goes on.
UploadMedia_Mut ==
    /\ ppc = "media"
    /\ \/ /\ media_id' = 1
          /\ ppc' = "featured"
       \/ /\ media_id' = NoMedia
          /\ ppc' = "publish"
    /\ UNCHANGED <<stats, qi, articles, article, tag_queue, post_id>>
    /\ UNCHANGED <<processed_file, processed_urls, search_queries, fetches, wp_posts, calls>>
    /\ PipelineFrame /\ CacheFrame /\ KeyFrame

\* Lines 1244-1252 and 1283-1288: download and upload the image; without a
\* media id the post is counted and, the article having an image, the query ends.
UploadMedia ==
    /\ ppc = "media"
    /\ \/ /\ media_id' = 1
          /\ ppc' = "featured"
          /\ UNCHANGED <<stats, qi, articles, article, tag_queue, post_id>>
       \/ /\ stats' = Bump(stats, "created")
          /\ Break
    /\ UNCHANGED <<processed_file, processed_urls, search_queries, fetches, wp_posts, calls>>
    /\ PipelineFrame /\ CacheFrame /\ KeyFrame

\* Line 1253: set_featured_image; its result is not looked at.
SetFeatured ==
    /\ ppc = "featured"
    /\ \/ wp_posts' = [wp_posts EXCEPT ![post_id].featured_media = media_id]
       \/ UNCHANGED wp_posts
    /\ ppc' = "publish"
    /\ UNCHANGED <<processed_file, processed_urls, stats, search_queries, fetches, qi, articles, article,
                   tag_queue, post_id, media_id, calls>>
    /\ PipelineFrame /\ CacheFrame /\ KeyFrame

\* Lines 1256-1265: the status update; the response is not looked at, and an
\* exception of requests.post is caught nowhere.
PublishPost ==
    /\ ppc = "publish"
    /\ calls' = Bump(calls, "publish")
    /\ \/ /\ wp_posts' = [wp_posts EXCEPT ![post_id].status = "publish"]
          /\ ppc' = "social"
          /\ UNCHANGED <<qi, articles, article, tag_queue, post_id, media_id>>
       \/ /\ ppc' = "social"
          /\ UNCHANGED <<wp_posts, qi, articles, article, tag_queue, post_id, media_id>>
       \/ /\ ppc' = "aborted"
          /\ articles' = <<>>
          /\ ClearLocals
          /\ UNCHANGED <<wp_posts, qi>>
    /\ UNCHANGED <<processed_file, processed_urls, stats, search_queries, fetches>>
    /\ PipelineFrame /\ CacheFrame /\ KeyFrame

\* SocialPost without the try/except around the call.
SocialPost_Mut ==
    /\ ppc = "social"
    /\ calls' = IF HAS_SOCIAL THEN Bump(calls, "social") ELSE calls
    /\ \/ Break /\ ppc' = "query"
       \/ /\ HAS_SOCIAL
          /\ ppc' = "aborted"
          /\ articles' = <<>>
          /\ ClearLocals
          /\ UNCHANGED qi
    /\ UNCHANGED <<processed_file, processed_urls, stats, search_queries, fetches, wp_posts>>
    /\ PipelineFrame /\ CacheFrame /\ KeyFrame

\* Lines 1267-1281: the social post when social_poster is there, whatever it
\* returns or raises; then break out of the article loop.
SocialPost ==
    /\ ppc = "social"
    /\ calls' = IF HAS_SOCIAL THEN Bump(calls, "social") ELSE calls
    /\ Break
    /\ UNCHANGED <<processed_file, processed_urls, stats, search_queries, fetches, wp_posts>>
    /\ PipelineFrame /\ CacheFrame /\ KeyFrame

\* Lines 1294-1296: all queries done, the caches are written.
SaveCaches ==
    /\ ppc = "query"
    /\ qi >= search_queries
    /\ cache_file' = save_wp_cache
    /\ processed_file' \in save_processed(processed_urls)
    /\ ppc' = "policy"
    /\ UNCHANGED <<processed_urls, stats, search_queries, fetches, qi, articles, article, tag_queue,
                   post_id, media_id, wp_posts, calls, wp_cache>>
    /\ PipelineFrame /\ KeyFrame

\* Lines 1306 and 1311-1385: with probability 0.3 a policy reminder post is
\* created, with status "publish" and no featured image.
PolicyPost ==
    /\ ppc = "policy"
    /\ \/ wp_posts' = Append(wp_posts, NewPost("policy", "publish", ""))
       \/ UNCHANGED wp_posts
    /\ ppc' = "done"
    /\ UNCHANGED <<processed_file, processed_urls, stats, search_queries, fetches, qi, articles, article,
                   tag_queue, post_id, media_id, calls>>
    /\ PipelineFrame /\ CacheFrame /\ KeyFrame

PipelineNext ==
    \/ StartRun
    \/ FetchQuery
    \/ NextQuery
    \/ ExamineArticle
    \/ Rewrite
    \/ ResolveTag
    \/ CreatePost
    \/ UploadMedia
    \/ SetFeatured
    \/ PublishPost
    \/ SocialPost
    \/ SaveCaches
    \/ PolicyPost

(***************************************************************************)
(* cnd-image-worker-hourly: the usage ledger and the rate limiter.         *)
(***************************************************************************)
\* load_usage: the list of timestamps, empty when the file is missing.
load_usage == IF Readable(usage_file) THEN usage_file.data ELSE <<>>

\* save_usage: the file written whole.
save_usage(ts) == [exists |-> TRUE, json |-> TRUE, data |-> ts]

prune_Mut(ts, seconds) ==
    LET cutoff == now - seconds
        Recent(t) == t >= cutoff
    IN SelectSeq(ts, Recent)

\* prune: the timestamps newer than time.time() - seconds.
prune(ts, seconds) ==
    LET cutoff == now - seconds
        Recent(t) == t > cutoff
    IN SelectSeq(ts, Recent)

can_generate_Mut ==
    LET usage == load_usage
        hourly == prune(usage, HourSeconds)
        daily == prune(usage, DaySeconds)
    IN IF Len(hourly) > HOURLY_CAP THEN FALSE
       ELSE IF Len(daily) > DAILY_CAP THEN FALSE
       ELSE TRUE

\* can_generate: the hourly cap first, then the daily cap.
can_generate ==
    LET usage == load_usage
        hourly == prune(usage, HourSeconds)
        daily == prune(usage, DaySeconds)
    IN IF Len(hourly) >= HOURLY_CAP THEN FALSE
       ELSE IF Len(daily) >= DAILY_CAP THEN FALSE
       ELSE TRUE

record_usage_Mut == save_usage(<<now>>)

\* record_usage: load, append time.time(), save.
record_usage == save_usage(Append(load_usage, now))

(***************************************************************************)
(* cnd-image-worker-hourly: main() and process_posts().                    *)
(***************************************************************************)
WorkerFrame ==
    UNCHANGED <<config_vars, pipeline_vars, worker_config, cache_vars, files_vars,
                fetcher_vars, taxonomy_vars, race_vars>>

\* The wall clock moves on, between and during the calls.
Deltas == {10, 3590, 82800}

Tick ==
    /\ ticks < MaxTicks
    /\ ticks' = ticks + 1
    /\ \E d \in Deltas : now' = now + d
    /\ UNCHANGED <<usage_file, wpc, wruns, posts, image_url, wstats, provider_calls,
                   rate_limit_reached>>
    /\ WorkerFrame

\* The posts get_posts_needing_images may return: none on an error.
PostLists == {[i \in 1..n |-> i] : n \in 0..MaxWorkerPosts}

\* WorkerStart without the test of RUN_ENABLED.
WorkerStart_Mut ==
    /\ wpc \in {"idle", "returned"}
    /\ wruns < MaxWorkerRuns
    /\ wruns' = wruns + 1
    /\ posts' \in PostLists
    /\ wstats' = ZeroWStats
    /\ provider_calls' = 0
    /\ rate_limit_reached' = FALSE
    /\ wpc' = "loop"
    /\ UNCHANGED <<usage_file, now, ticks, image_url>>
    /\ WorkerFrame

\* main(), lines 383-394, and process_posts(), lines 331-340.
WorkerStart ==
    /\ wpc \in {"idle", "returned"}
    /\ wruns < MaxWorkerRuns
    /\ wruns' = wruns + 1
    /\ IF ~RUN_ENABLED
       THEN /\ wpc' = "returned"
            /\ UNCHANGED <<posts, wstats, provider_calls, rate_limit_reached>>
       ELSE /\ posts' \in PostLists
            /\ wstats' = ZeroWStats
            /\ provider_calls' = 0
            /\ rate_limit_reached' = FALSE
            /\ wpc' = "loop"
    /\ UNCHANGED <<usage_file, now, ticks, image_url>>
    /\ WorkerFrame

\* continue, or the end of the loop body: on to the next post.
NextPost ==
    /\ posts' = Tail(posts)
    /\ image_url' = FALSE
    /\ wpc' = "loop"

\* CheckRate with continue in the place of break.
CheckRate_Mut ==
    /\ wpc = "loop"
    /\ IF posts = <<>>
       THEN /\ wpc' = "returned"
            /\ UNCHANGED <<posts, image_url, wstats, rate_limit_reached>>
       ELSE IF ~can_generate
       THEN /\ rate_limit_reached' = TRUE
            /\ NextPost
            /\ UNCHANGED wstats
       ELSE /\ wstats' = [wstats EXCEPT !.attempted = @ + 1]
            /\ wpc' = "primary"
            /\ UNCHANGED <<posts, image_url, rate_limit_reached>>
    /\ UNCHANGED <<usage_file, now, ticks, wruns, provider_calls>>
    /\ WorkerFrame

\* Lines 342-351: the head of the loop and the rate-limit check.
CheckRate ==
    /\ wpc = "loop"
    /\ IF posts = <<>>
       THEN /\ wpc' = "returned"
            /\ UNCHANGED <<posts, wstats, rate_limit_reached>>
       ELSE IF ~can_generate
       THEN /\ rate_limit_reached' = TRUE
            /\ wpc' = "returned"
            /\ UNCHANGED <<posts, wstats>>
       ELSE /\ wstats' = [wstats EXCEPT !.attempted = @ + 1]
            /\ wpc' = "primary"
            /\ UNCHANGED <<posts, rate_limit_reached>>
    /\ UNCHANGED <<usage_file, now, ticks, wruns, image_url, provider_calls>>
    /\ WorkerFrame

\* Line 357: generate_image_openclaw returns an image URL or None.
GeneratePrimary ==
    /\ wpc = "primary"
    /\ provider_calls' = provider_calls + 1
    /\ \/ /\ image_url' = TRUE
          /\ wpc' = "record"
       \/ /\ image_url' = FALSE
          /\ wpc' = "fallback"
    /\ UNCHANGED <<usage_file, now, ticks, wruns, posts, wstats, rate_limit_reached>>
    /\ WorkerFrame

\* GenerateFallback with the post tried again after the fallback failed.
GenerateFallback_Mut ==
    /\ wpc = "fallback"
    /\ provider_calls' = provider_calls + 1
    /\ wpc' = "primary"
    /\ UNCHANGED <<usage_file, now, ticks, wruns, posts, image_url, wstats,
                   rate_limit_reached>>
    /\ WorkerFrame

\* Lines 359-366: generate_image_comfyui returns None on every path, so the
\* post is counted as failed.
GenerateFallback ==
    /\ wpc = "fallback"
    /\ provider_calls' = provider_calls + 1
    /\ wstats' = [wstats EXCEPT !.failed = @ + 1]
    /\ NextPost
    /\ UNCHANGED <<usage_file, now, ticks, wruns, rate_limit_reached>>
    /\ WorkerFrame

\* Lines 368-369: the generation is counted and recorded.
RecordUsage ==
    /\ wpc = "record"
    /\ wstats' = [wstats EXCEPT !.generated = @ + 1]
    /\ usage_file' = record_usage
    /\ wpc' = "upload"
    /\ UNCHANGED <<now, ticks, wruns, posts, image_url, provider_calls,
                   rate_limit_reached>>
    /\ WorkerFrame

\* UploadToWordpress with a failed upload counted nowhere.
UploadToWordpress_Mut ==
    /\ wpc = "upload"
    /\ \/ wstats' = [wstats EXCEPT !.uploaded = @ + 1]
       \/ UNCHANGED wstats
    /\ NextPost
    /\ UNCHANGED <<usage_file, now, ticks, wruns, provider_calls, rate_limit_reached>>
    /\ WorkerFrame

\* Lines 372-378: upload_to_wordpress, then set_featured_image when there is
\* a media id; the post is uploaded when both succeed, failed otherwise.
UploadToWordpress ==
    /\ wpc = "upload"
    /\ \/ wstats' = [wstats EXCEPT !.uploaded = @ + 1]
       \/ wstats' = [wstats EXCEPT !.failed = @ + 1]
    /\ NextPost
    /\ UNCHANGED <<usage_file, now, ticks, wruns, provider_calls, rate_limit_reached>>
    /\ WorkerFrame

WorkerNext ==
    \/ Tick
    \/ WorkerStart
    \/ CheckRate
    \/ GeneratePrimary
    \/ GenerateFallback
    \/ RecordUsage
    \/ UploadToWordpress

(***************************************************************************)
(* The loaders and the savers of the state files, each on its own.         *)
(***************************************************************************)
FilesFrame ==
    UNCHANGED <<config_vars, worker_config, stats, ppc, search_queries, fetches, qi,
                articles, article, tag_queue, post_id, media_id, wp_posts, calls,
                generated_content, keys_used, fetch_answers, now, ticks, wpc, wruns, posts, image_url,
                wstats, provider_calls, rate_limit_reached, fetcher_vars, taxonomy_vars, race_vars>>

\* cnd_news_pipeline.main(), lines 1027-1028: the cache and the ledger are
\* loaded at the start of a run.
LoadLedger ==
    /\ fpc.ledger \in {"start", "saved"}
    /\ wp_cache' = load_wp_cache
    /\ processed_urls' = load_processed
    /\ fpc' = [fpc EXCEPT !.ledger = IF @ = "start" THEN "loaded" ELSE "reloaded"]
    /\ UNCHANGED <<processed_file, cache_file, usage_file, status_file, loaded_usage,
                   loaded_status>>
    /\ FilesFrame

\* cnd_news_pipeline.main(), lines 1295-1296: the cache and the ledger are
\* written at the end of a run.
SaveLedger ==
    /\ fpc.ledger \in {"loaded", "reloaded"}
    /\ cache_file' = save_wp_cache
    /\ processed_file' \in save_processed(processed_urls)
    /\ fpc' = [fpc EXCEPT !.ledger = IF @ = "loaded" THEN "saved" ELSE "resaved"]
    /\ UNCHANGED <<processed_urls, wp_cache, usage_file, status_file, loaded_usage,
                   loaded_status>>
    /\ FilesFrame

\* can_generate, line 103, and record_usage, line 125: usage = load_usage().
LoadUsage ==
    /\ ~fpc.usage
    /\ loaded_usage' = load_usage
    /\ fpc' = [fpc EXCEPT !.usage = TRUE]
    /\ UNCHANGED <<processed_file, processed_urls, cache_file, wp_cache, usage_file,
                   status_file, loaded_status>>
    /\ FilesFrame

\* dashboard_server, GET /api/status, line 96: load_status().
LoadStatus ==
    /\ ~fpc.status
    /\ loaded_status' = load_status
    /\ fpc' = [fpc EXCEPT !.status = TRUE]
    /\ UNCHANGED <<processed_file, processed_urls, cache_file, wp_cache, usage_file,
                   status_file, loaded_usage>>
    /\ FilesFrame

FilesNext == LoadLedger \/ SaveLedger \/ LoadUsage \/ LoadStatus

(***************************************************************************)
(* The article records the two fetchers build from a search result.        *)
(***************************************************************************)
FetcherFrame ==
    UNCHANGED <<config_vars, pipeline_vars, worker_config, worker_vars, cache_vars,
                files_vars, item, taxonomy_vars, race_vars>>

\* brave_fetch_news.search_brave, lines 176-186: title and description go
\* through clamp, the URL is taken as it is.
BuildArticle ==
    /\ emitted = NoEmitted
    /\ item # NoItem
    /\ emitted' = [by |-> "brave_fetch_news",
                   title |-> clamp(item.title, TitleMax),
                   description |-> clamp(item.description, DescriptionMax),
                   url |-> item.url]
    /\ FetcherFrame

\* cnd_news_pipeline.search_brave, lines 529-538: every field as it came.
BuildPipelineArticle ==
    /\ emitted = NoEmitted
    /\ item # NoItem
    /\ emitted' = [by |-> "cnd_news_pipeline",
                   title |-> item.title,
                   description |-> item.description,
                   url |-> item.url]
    /\ FetcherFrame

FetcherNext == BuildArticle \/ BuildPipelineArticle

(***************************************************************************)
(* wordpress_taxonomy.sync_taxonomy: the categories of config.json that    *)
(* WordPress does not have are created.                                    *)
(***************************************************************************)
TaxonomyFrame ==
    UNCHANGED <<config_vars, pipeline_vars, worker_config, worker_vars, cache_vars,
                files_vars, fetcher_vars, race_vars, structure>>

\* Line 257: the lowercased names of the categories that were fetched.
existing_names == {lower(c) : c \in existing_cats}

\* Whether WordPress has a category of that name, whatever the case.
on_wordpress(name) == \E c \in wp_categories : lower(c) = lower(name)

\* Lines 236-248 and fetch_wp_categories: all the categories of a 200 answer;
\* none for any other status and for any exception.
SyncStart ==
    /\ spc \in {"idle", "done"}
    /\ syncs < MaxSyncs
    /\ syncs' = syncs + 1
    /\ existing_cats' \in {wp_categories, {}}
    /\ todo' = structure
    /\ category_requests' = <<>>
    /\ spc' = "loop"
    /\ UNCHANGED wp_categories
    /\ TaxonomyFrame

\* Lines 255-276: a name that is not among the fetched ones is sent to
\* create_wp_category; WordPress creates it unless it has the name already
\* or fails.  existing_names is built from the fetched categories each time
\* and never holds what this run created.
SyncCategory ==
    /\ spc = "loop"
    /\ todo # <<>>
    /\ LET name == Head(todo)
       IN IF lower(name) \notin existing_names
          THEN /\ category_requests' = Append(category_requests, name)
               /\ \/ ~on_wordpress(name) /\ wp_categories' = wp_categories \cup {name}
                  \/ UNCHANGED wp_categories
          ELSE UNCHANGED <<category_requests, wp_categories>>
    /\ todo' = Tail(todo)
    /\ UNCHANGED <<existing_cats, spc, syncs>>
    /\ TaxonomyFrame

\* Lines 278-282: the statistics are printed and returned.
SyncReturn ==
    /\ spc = "loop"
    /\ todo = <<>>
    /\ spc' = "done"
    /\ UNCHANGED <<wp_categories, existing_cats, todo, category_requests, syncs>>
    /\ TaxonomyFrame

TaxonomyNext == SyncStart \/ SyncCategory \/ SyncReturn

(***************************************************************************)
(* Two processes of cnd_news_pipeline.main() on one ledger file: the load, *)
(* the article loop and the save of each, in any interleaving.             *)
(***************************************************************************)
OverlapFrame ==
    UNCHANGED <<config_vars, processed_urls, stats, ppc, search_queries, fetches, qi,
                articles, article, tag_queue, post_id, media_id, wp_posts, calls,
                generated_content, keys_used, fetch_answers, worker_config, worker_vars,
                cache_vars, files_vars, fetcher_vars, taxonomy_vars, workers>>

\* A process is between its load and its save.
Running(p) == procs[p].pc = "loop"

\* Line 1028: processed_urls = load_processed().
LoadRun(p) ==
    /\ procs[p].pc = "idle"
    /\ procs' = [q \in ProcIds |->
                    IF q = p
                    THEN [procs[p] EXCEPT !.pc = "loop",
                                          !.processed_urls = load_processed,
                                          !.overlapped = Running(Other(p))]
                    ELSE [procs[q] EXCEPT !.overlapped = @ \/ Running(q)]]
    /\ UNCHANGED processed_file
    /\ OverlapFrame

\* Lines 1102-1292 for one article: the dedup check against the set of this
\* process, the mark, then the rewrite and the post.
HandleArticle(p, u) ==
    /\ procs[p].pc = "loop"
    /\ IF has_seen(procs[p].processed_urls, u)
       THEN UNCHANGED procs
       ELSE procs' = [procs EXCEPT ![p].processed_urls = mark_seen(@, u),
                                   ![p].handled = @ \cup {u}]
    /\ UNCHANGED processed_file
    /\ OverlapFrame

\* Line 1296: save_processed(processed_urls), the file written whole.
SaveRun(p) ==
    /\ procs[p].pc = "loop"
    /\ processed_file' \in save_processed(procs[p].processed_urls)
    /\ procs' = [procs EXCEPT ![p].pc = "saved"]
    /\ OverlapFrame

OverlapNext ==
    \E p \in ProcIds :
        \/ LoadRun(p)
        \/ \E u \in URLS : HandleArticle(p, u)
        \/ SaveRun(p)

(***************************************************************************)
(* Two processes of the image worker on one usage file: can_generate and   *)
(* the load and the save of record_usage of each, in any interleaving.     *)
(***************************************************************************)
RaceFrame ==
    UNCHANGED <<config_vars, pipeline_vars, worker_config, cache_vars, files_vars,
                fetcher_vars, taxonomy_vars, procs, now, ticks, wpc, wruns, posts,
                image_url, wstats, provider_calls, rate_limit_reached>>

\* A worker is between the load of can_generate that let it pass and the
\* save of its record_usage.
InSection(w) == workers[w].pc \in {"generate", "record", "save"}

\* Lines 340-342: the posts to handle are fetched.
StartWorker(w) ==
    /\ workers[w].pc = "idle"
    /\ \E n \in 0..MaxWorkerPosts :
          workers' = [workers EXCEPT ![w].pc = "check", ![w].left = n]
    /\ UNCHANGED usage_file
    /\ RaceFrame

\* Lines 342-351: the head of the loop and can_generate, which loads the
\* usage file and counts.
CheckLimit(w) ==
    /\ workers[w].pc = "check"
    /\ IF workers[w].left = 0 \/ ~can_generate
       THEN workers' = [workers EXCEPT ![w].pc = "returned"]
       ELSE workers' = [v \in ProcIds |->
                           IF v = w
                           THEN [workers[w] EXCEPT !.pc = "generate",
                                                   !.overlapped = @ \/ InSection(Other(w))]
                           ELSE [workers[v] EXCEPT !.overlapped = @ \/ InSection(v)]]
    /\ UNCHANGED usage_file
    /\ RaceFrame

\* Lines 357-366: the providers return an image URL or the post has failed.
Generate(w) ==
    /\ workers[w].pc = "generate"
    /\ \/ workers' = [workers EXCEPT ![w].pc = "record"]
       \/ workers' = [workers EXCEPT ![w].pc = "check", ![w].left = @ - 1]
    /\ UNCHANGED usage_file
    /\ RaceFrame

\* record_usage, line 125: usage = load_usage().
LoadForRecord(w) ==
    /\ workers[w].pc = "record"
    /\ workers' = [workers EXCEPT ![w].pc = "save", ![w].usage = load_usage]
    /\ UNCHANGED usage_file
    /\ RaceFrame

\* record_usage, lines 126-127: usage.append(time.time()); save_usage(usage);
\* then the upload and the next post.
SaveRecord(w) ==
    /\ workers[w].pc = "save"
    /\ usage_file' = save_usage(Append(workers[w].usage, now))
    /\ workers' = [workers EXCEPT ![w].pc = "check",
                                   ![w].left = @ - 1,
                                   ![w].usage = <<>>,
                                   ![w].stamps = Append(@, now)]
    /\ RaceFrame

RaceNext ==
    \/ Tick
    \/ \E w \in ProcIds :
          \/ StartWorker(w)
          \/ CheckLimit(w)
          \/ Generate(w)
          \/ LoadForRecord(w)
          \/ SaveRecord(w)

(***************************************************************************)
(* Specifications.                                                         *)
(***************************************************************************)
Next == PipelineNext \/ WorkerNext

Spec == Init /\ [][Next]_vars

\* The usage file as a worker run with an hourly cap of 1 left it 10 seconds
\* ago: the rate limiter has no slot.
UsedUp ==
    /\ HOURLY_CAP = 1 /\ DAILY_CAP = 1 /\ RUN_ENABLED = TRUE
    /\ usage_file = save_usage(<<0>>)
    /\ now = 10
    /\ ticks = 1
    /\ wpc = "returned"
    /\ wruns = 1
    /\ posts = <<>>
    /\ image_url = FALSE
    /\ wstats = [ZeroWStats EXCEPT !.attempted = 1, !.generated = 1, !.uploaded = 1]
    /\ provider_calls = 1
    /\ rate_limit_reached = FALSE

\* The pipeline on its own, started after that worker run.
PipelineInit == PipelineConfig /\ PipelineIdle /\ UsedUp /\ FilesIdle /\ FetcherIdle /\ TaxonomyIdle /\ RaceIdle

PipelineSpec == PipelineInit /\ [][PipelineNext]_vars

\* The worker on its own, the pipeline idle.
WorkerInit ==
    /\ PUBLISH_MODE = "draft" /\ MAX_ARTICLES = NoLimit /\ HAS_SOCIAL = FALSE
    /\ Credentials
    /\ PipelineIdle
    /\ WorkerConfig /\ WorkerIdle
    /\ FilesIdle /\ FetcherIdle /\ TaxonomyIdle /\ RaceIdle

WorkerSpec == WorkerInit /\ [][WorkerNext]_vars

\* The articles that reach the rewrite: fresh search results with an image,
\* feed items of unknown age.
RewriteCandidates ==
    {a \in RssArticles \cup BraveArticles :
        /\ a.source = "brave" => BraveKept(a)
        /\ ~too_old(article_age_days(a))}

\* One run at the rewrite of its first article, the LLM answer known.
RewriteInit ==
    /\ PUBLISH_MODE = "draft" /\ MAX_ARTICLES = NoLimit /\ HAS_SOCIAL = FALSE
    /\ Credentials
    /\ UsedUp
    /\ FilesIdle /\ FetcherIdle /\ TaxonomyIdle /\ RaceIdle
    /\ article \in RewriteCandidates
    /\ generated_content \in LlmResponses
    /\ processed_file = MissingFile
    /\ processed_urls = {article.url}
    /\ stats = [ZeroStats EXCEPT !.fetched = 1]
    /\ ppc = "rewrite"
    /\ search_queries = 1
    /\ fetches = 1
    /\ qi = 0
    /\ articles = <<>>
    /\ tag_queue = <<>>
    /\ post_id = NoPost
    /\ media_id = NoMedia
    /\ wp_posts = <<>>
    /\ calls = ZeroCalls
    /\ keys_used = <<"key">>
    /\ fetch_answers = NoAnswers

RewriteNext == RewriteGiven \/ ResolveTag \/ CreatePost

RewriteSpec == RewriteInit /\ [][RewriteNext]_vars

\* The pipeline run with any of the credentials missing or present.
ConfigInit ==
    /\ PUBLISH_MODE = "draft" /\ MAX_ARTICLES = NoLimit /\ HAS_SOCIAL = FALSE
    /\ BRAVE_API_KEY \in {"", "key"}
    /\ WP_APP_PASSWORD \in {"", "secret"}
    /\ brave_keys = <<>>
    /\ PipelineIdle
    /\ UsedUp
    /\ FilesIdle /\ FetcherIdle /\ TaxonomyIdle /\ RaceIdle

ConfigSpec == ConfigInit /\ [][PipelineNext]_vars

\* The four state files in any state, nothing loaded yet.
FilesInit ==
    /\ PUBLISH_MODE = "draft" /\ MAX_ARTICLES = NoLimit /\ HAS_SOCIAL = FALSE
    /\ Credentials
    /\ HOURLY_CAP = 1 /\ DAILY_CAP = 1 /\ RUN_ENABLED = TRUE
    /\ processed_file \in FileStates(MissingFile, SeqsUpTo(URLS, MaxFileLen))
    /\ usage_file \in FileStates(MissingFile, {<<>>, <<0>>})
    /\ cache_file \in FileStates(MissingCache, CacheContents)
    /\ status_file \in FileStates(MissingStatus, StatusContents)
    /\ processed_urls = {}
    /\ wp_cache = EmptyCache
    /\ loaded_status = default_status
    /\ loaded_usage = <<>>
    /\ fpc = NoFileOps
    /\ FetcherIdle /\ TaxonomyIdle /\ RaceIdle
    /\ stats = ZeroStats
    /\ ppc = "idle"
    /\ search_queries = 0
    /\ fetches = 0
    /\ qi = 0
    /\ articles = <<>>
    /\ article = NoArticle
    /\ tag_queue = <<>>
    /\ post_id = NoPost
    /\ media_id = NoMedia
    /\ wp_posts = <<>>
    /\ calls = ZeroCalls
    /\ generated_content = <<>>
    /\ keys_used = <<>>
    /\ fetch_answers = NoAnswers
    /\ now = 10
    /\ ticks = 0
    /\ wpc = "idle"
    /\ wruns = 0
    /\ posts = <<>>
    /\ image_url = FALSE
    /\ wstats = ZeroWStats
    /\ provider_calls = 0
    /\ rate_limit_reached = FALSE

FilesSpec == FilesInit /\ [][FilesNext]_vars

\* The worker started by cron, enabled or not, after an earlier run recorded
\* a generation 10 seconds ago.
RestartInit ==
    /\ PUBLISH_MODE = "draft" /\ MAX_ARTICLES = NoLimit /\ HAS_SOCIAL = FALSE
    /\ Credentials
    /\ PipelineIdle
    /\ FilesIdle /\ FetcherIdle /\ TaxonomyIdle /\ RaceIdle
    /\ WorkerConfig
    /\ usage_file = save_usage(<<0>>)
    /\ now = 10
    /\ ticks = 0
    /\ wpc = "idle"
    /\ wruns = 0
    /\ posts = <<>>
    /\ image_url = FALSE
    /\ wstats = ZeroWStats
    /\ provider_calls = 0
    /\ rate_limit_reached = FALSE

RestartSpec == RestartInit /\ [][WorkerNext]_vars

\* The two programs as cron starts them, one at a time: either the pipeline
\* runs and the worker has not started, or the worker runs and the pipeline
\* has not started.
CronInit ==
    /\ PUBLISH_MODE = "publish" /\ MAX_ARTICLES = NoLimit /\ HAS_SOCIAL = TRUE
    /\ Credentials
    /\ PipelineIdle
    /\ FilesIdle /\ FetcherIdle /\ TaxonomyIdle /\ RaceIdle
    /\ HOURLY_CAP = MaxCap /\ DAILY_CAP = MaxCap /\ RUN_ENABLED = TRUE
    /\ WorkerIdle

PipelineTurn == wruns = 0 /\ ticks = 0 /\ PipelineNext

WorkerTurn == ppc = "idle" /\ WorkerNext

CronNext == PipelineTurn \/ WorkerTurn

CronSpec == CronInit /\ [][CronNext]_vars

\* The worker with the progress its calls guarantee.  A step is sure to end
\* when it makes no request or when each of its requests has a timeout:
\* generate_image_openclaw (timeout=120), generate_image_comfyui
\* (timeout=180), the files of the rate limiter.  The media upload and
\* set_featured_image of the worker send requests.post without a timeout
\* (lines 275 and 307), so nothing bounds the time UploadToWordpress takes.
WorkerProgress ==
    /\ WF_vars(CheckRate)
    /\ WF_vars(GeneratePrimary)
    /\ WF_vars(GenerateFallback)
    /\ WF_vars(RecordUsage)

WorkerFairSpec == WorkerInit /\ [][WorkerNext]_vars /\ WorkerProgress

\* One run of one query at its fetch, the answers of the feeds and of the
\* search known.
FetchInit ==
    /\ PUBLISH_MODE = "draft" /\ MAX_ARTICLES = NoLimit /\ HAS_SOCIAL = FALSE
    /\ Credentials
    /\ UsedUp
    /\ FilesIdle /\ FetcherIdle /\ TaxonomyIdle /\ RaceIdle
    /\ fetch_answers \in FetchAnswers
    /\ processed_file = MissingFile
    /\ processed_urls = {}
    /\ stats = ZeroStats
    /\ ppc = "query"
    /\ search_queries = 1
    /\ fetches = 0
    /\ qi = 0
    /\ articles = <<>>
    /\ article = NoArticle
    /\ tag_queue = <<>>
    /\ post_id = NoPost
    /\ media_id = NoMedia
    /\ wp_posts = <<>>
    /\ calls = ZeroCalls
    /\ generated_content = <<>>
    /\ keys_used = <<>>

FetchNext ==
    \/ FetchGiven
    \/ NextQuery
    \/ ExamineArticle
    \/ Rewrite
    \/ ResolveTag
    \/ CreatePost
    \/ UploadMedia
    \/ SetFeatured
    \/ PublishPost
    \/ SocialPost
    \/ SaveCaches
    \/ PolicyPost

FetchSpec == FetchInit /\ [][FetchNext]_vars

\* A fetcher with one result of the search API in hand.
FetcherInit ==
    /\ PUBLISH_MODE = "draft" /\ MAX_ARTICLES = NoLimit /\ HAS_SOCIAL = FALSE
    /\ Credentials
    /\ PipelineIdle
    /\ UsedUp
    /\ cache_file = MissingCache
    /\ wp_cache = EmptyCache
    /\ status_file = MissingStatus
    /\ loaded_status = default_status
    /\ loaded_usage = <<>>
    /\ fpc = NoFileOps
    /\ item \in RawItems \ {NoItem}
    /\ emitted = NoEmitted
    /\ TaxonomyIdle /\ RaceIdle

FetcherSpec == FetcherInit /\ [][FetcherNext]_vars

\* sync_taxonomy run against any set of categories on WordPress.
TaxonomyInit ==
    /\ PUBLISH_MODE = "draft" /\ MAX_ARTICLES = NoLimit /\ HAS_SOCIAL = FALSE
    /\ Credentials
    /\ PipelineIdle
    /\ UsedUp
    /\ FilesIdle /\ FetcherIdle /\ RaceIdle
    /\ wp_categories \in CategorySets
    /\ structure \in Structures
    /\ existing_cats = {}
    /\ todo = <<>>
    /\ category_requests = <<>>
    /\ spc = "idle"
    /\ syncs = 0

TaxonomySpec == TaxonomyInit /\ [][TaxonomyNext]_vars

\* Two processes of main() about to start, the ledger file missing or sound.
OverlapInit ==
    /\ PUBLISH_MODE = "draft" /\ MAX_ARTICLES = NoLimit /\ HAS_SOCIAL = FALSE
    /\ Credentials
    /\ UsedUp
    /\ FilesIdle /\ FetcherIdle /\ TaxonomyIdle /\ RaceIdle
    /\ processed_file \in {MissingFile} \cup UNION {save_processed(S) : S \in SUBSET URLS}
    /\ processed_urls = {}
    /\ stats = ZeroStats
    /\ ppc = "idle"
    /\ search_queries = 0
    /\ fetches = 0
    /\ qi = 0
    /\ articles = <<>>
    /\ article = NoArticle
    /\ tag_queue = <<>>
    /\ post_id = NoPost
    /\ media_id = NoMedia
    /\ wp_posts = <<>>
    /\ calls = ZeroCalls
    /\ generated_content = <<>>
    /\ keys_used = <<>>
    /\ fetch_answers = NoAnswers

OverlapSpec == OverlapInit /\ [][OverlapNext]_vars

\* Two worker processes about to start, no generation recorded yet.
RaceInit ==
    /\ PUBLISH_MODE = "draft" /\ MAX_ARTICLES = NoLimit /\ HAS_SOCIAL = FALSE
    /\ Credentials
    /\ PipelineIdle
    /\ FilesIdle /\ FetcherIdle /\ TaxonomyIdle /\ RaceIdle
    /\ HOURLY_CAP \in 1..MaxCap /\ DAILY_CAP \in 1..MaxCap /\ RUN_ENABLED = TRUE
    /\ WorkerIdle

RaceSpec == RaceInit /\ [][RaceNext]_vars

\* The lists of keys a site may have: none, or up to MaxKeys distinct keys.
KeyNames == <<"k1", "k2", "k3", "k4">>
KeyLists == {SubSeq(KeyNames, 1, n) : n \in 0..MaxKeys}

\* One run of MaxQueries queries, the configuration loaded and the queries
\* built (line 1074), for every list of keys; one article per query.
KeysInit ==
    /\ PUBLISH_MODE = "draft" /\ MAX_ARTICLES = 1 /\ HAS_SOCIAL = FALSE
    /\ BRAVE_API_KEY = "key"
    /\ WP_APP_PASSWORD = "secret"
    /\ brave_keys \in KeyLists
    /\ UsedUp
    /\ FilesIdle /\ FetcherIdle /\ TaxonomyIdle /\ RaceIdle
    /\ processed_file = MissingFile
    /\ processed_urls = {}
    /\ stats = ZeroStats
    /\ ppc = "query"
    /\ search_queries = MaxQueries
    /\ fetches = 0
    /\ qi = 0
    /\ articles = <<>>
    /\ article = NoArticle
    /\ tag_queue = <<>>
    /\ post_id = NoPost
    /\ media_id = NoMedia
    /\ wp_posts = <<>>
    /\ calls = ZeroCalls
    /\ generated_content = <<>>
    /\ keys_used = <<>>
    /\ fetch_answers = NoAnswers

KeysNext ==
    \/ FetchQuery
    \/ NextQuery
    \/ ExamineArticle
    \/ Rewrite
    \/ ResolveTag
    \/ CreatePost
    \/ UploadMedia
    \/ SetFeatured
    \/ PublishPost
    \/ SocialPost
    \/ SaveCaches
    \/ PolicyPost

KeysSpec == KeysInit /\ [][KeysNext]_vars

(***************************************************************************)
(* Properties.                                                             *)
(***************************************************************************)
ArticlePosts == {p \in DOMAIN wp_posts : wp_posts[p].kind = "article"}
PublicPosts == {p \in DOMAIN wp_posts : wp_posts[p].status = "publish"}

\* The posts that are public after a step and were not before it.
NewlyPublic ==
    {p \in DOMAIN wp_posts' :
        /\ wp_posts'[p].status = "publish"
        /\ p \in DOMAIN wp_posts => wp_posts[p].status # "publish"}

\* The URLs of the ledger file as it is on disk.
LedgerOnDisk == IF processed_file.exists THEN Range(processed_file.data) ELSE {}

\* The steps that send a rewrite, or a create-post, request for u.
RewriteSent(u) == calls'.llm[u] > calls.llm[u]
CreateSent(u) == calls'.create[u] > calls.create[u]

\* C1: an article post is public only if a featured image was attached to
\* it: the upload returned a media id and set_featured_image succeeded.
C1_PublicOnlyWithFeaturedImage ==
    \A p \in ArticlePosts :
        wp_posts[p].status = "publish" => wp_posts[p].featured_media # NoMedia

C3_DraftModeNeverPublishes ==
    PUBLISH_MODE = "draft" => ArticlePosts \cap PublicPosts = {}

\* C4: in one run at most one rewrite request and at most one create-post
\* request are sent per URL.
C4_OncePerUrlPerRun ==
    \A u \in URLS : calls.llm[u] <= 1 /\ calls.create[u] <= 1

\* A URL first seen in this run was rewritten, then met again under a later
\* query and skipped.
C4_Witness ==
    \E u \in URLS :
        /\ ~processed_file.exists
        /\ processed_urls = {u}
        /\ calls.llm[u] = 1
        /\ qi >= 1
        /\ stats.skipped >= 1

\* C5: across completed runs the ledger only grows: what is written holds
\* what was there and all that the run marked, the next run loads all of it,
\* and no URL of the ledger on disk is sent to the rewriter or to WordPress.
C5_LedgerAcrossRuns ==
    [][/\ processed_file' # processed_file =>
             LedgerOnDisk \subseteq LedgerOnDisk' /\ LedgerOnDisk' = processed_urls
       /\ ppc = "done" => processed_urls \subseteq processed_urls'
       /\ \A u \in URLS : RewriteSent(u) \/ CreateSent(u) => u \notin LedgerOnDisk]_vars

\* A later run met a URL of the ledger again and skipped it.
C5_Witness ==
    /\ processed_file.exists
    /\ processed_urls = LedgerOnDisk
    /\ processed_urls # {}
    /\ ppc = "article"
    /\ stats.skipped >= 1
    /\ calls = ZeroCalls

\* C6: a candidate whose URL is in the ledger costs one skipped and nothing
\* else: no request, no other counter, no change of the ledger.
C6_SeenUrlOnlySkipped ==
    [][(ppc = "article" /\ articles # <<>> /\ Head(articles).url \in processed_urls) =>
          /\ stats' = [stats EXCEPT !.skipped = @ + 1]
          /\ calls' = calls
          /\ wp_posts' = wp_posts
          /\ processed_urls' = processed_urls
          /\ processed_file' = processed_file]_vars

\* One search result, its URL in the ledger: skipped is 1, nothing was sent.
C6_Witness ==
    /\ processed_file.exists
    /\ processed_urls = LedgerOnDisk
    /\ ppc = "article"
    /\ articles = <<>>
    /\ stats = [ZeroStats EXCEPT !.fetched = 1, !.skipped = 1]
    /\ calls = ZeroCalls

\* The timestamps of the usage file inside the trailing window.
UsedWithin(seconds) ==
    Cardinality({i \in DOMAIN load_usage : load_usage[i] > now - seconds})

Remaining(cap, used) == IF cap - used > 0 THEN cap - used ELSE 0

HasSlots ==
    /\ Remaining(HOURLY_CAP, UsedWithin(3600)) > 0
    /\ Remaining(DAILY_CAP, UsedWithin(86400)) > 0

\* C7: the limiter counts the entries with t > now-3600 and t > now-86400
\* and permits a generation exactly when both remaining counts are positive.
C7_RateLimiterCounts ==
    /\ Len(prune(load_usage, 3600)) = UsedWithin(3600)
    /\ Len(prune(load_usage, 86400)) = UsedWithin(86400)
    /\ can_generate <=> HasSlots

\* A generation was permitted with the one earlier event exactly an hour old.
C7_Witness ==
    /\ wpc = "primary"
    /\ HOURLY_CAP = 1
    /\ \E i \in DOMAIN load_usage : load_usage[i] = now - 3600

\* C8: once a post meets a limiter without slots, nothing more is attempted
\* in the run: no provider call, no timestamp, attempted unchanged.
C8_RateLimitStopsRun ==
    [][((wpc = "loop" /\ posts # <<>> /\ ~HasSlots) \/ (rate_limit_reached /\ rate_limit_reached')) =>
          /\ wstats'.attempted = wstats.attempted
          /\ usage_file' = usage_file
          /\ provider_calls' = provider_calls
          /\ wpc' \in {wpc, "returned"}]_vars

\* Hourly cap 1, one event recorded 10 seconds ago, a post left: stopped.
C8_Witness ==
    /\ rate_limit_reached
    /\ wpc = "returned"
    /\ posts # <<>>
    /\ HOURLY_CAP = 1
    /\ load_usage = <<now - 10>>

\* C9: the events inside the trailing hour never exceed HOURLY_CAP, those
\* inside the trailing day never DAILY_CAP.
C9_CapsHold ==
    UsedWithin(3600) <= HOURLY_CAP /\ UsedWithin(86400) <= DAILY_CAP

\* A later run recorded the event that fills the hour.
C9_Witness ==
    /\ wruns = 2
    /\ wpc = "upload"
    /\ HOURLY_CAP = 2
    /\ UsedWithin(3600) = 2

MediaStepFailed ==
    \/ /\ ppc = "tags" /\ tag_queue = <<>>
       /\ Len(wp_posts') = Len(wp_posts) + 1
       /\ ~article.image
    \/ /\ ppc = "media"
       /\ media_id' = NoMedia

\* C11: when the media step of a created post fails, the workflow stops for
\* that post: no status update, no social call, the post is a draft and is
\* no longer the current post; and no post but the current one, after an
\* upload that returned a media id, ever changes its status.
C11_MediaFailureLeavesDraft ==
    [][/\ MediaStepFailed =>
             /\ calls'.publish = calls.publish
             /\ calls'.social = calls.social
             /\ ppc' \in {"article", "query"}
             /\ post_id' = NoPost
             /\ \A p \in DOMAIN wp_posts' :
                   p \notin PublicPosts => wp_posts'[p].status = "draft"
       /\ \A p \in DOMAIN wp_posts :
             wp_posts'[p].status # wp_posts[p].status =>
                 ppc = "publish" /\ p = post_id /\ media_id # NoMedia]_vars

\* The upload failed for the first post of the run, which is still a draft
\* after a later query of the same run published its post.
C11_Witness ==
    /\ Len(wp_posts) = 2
    /\ wp_posts[1].kind = "article" /\ wp_posts[1].status = "draft"
    /\ wp_posts[2].kind = "article" /\ wp_posts[2].status = "publish"
    /\ stats.created = 1 /\ stats.processed = 0
    /\ calls.publish = 1

\* C12: every article post carries a workflow state marker in its meta
\* fields: "queued" from creation, "generated" or "failed" after the media
\* step.
C12_StateMarkerInMeta ==
    \A p \in ArticlePosts :
        \E k \in DOMAIN wp_posts[p].meta :
            wp_posts[p].meta[k] \in {"queued", "generated", "failed"}

\* Whether the answer has a line that starts with the key.
HasLine(key) == \E i \in DOMAIN generated_content : generated_content[i].key = key

\* The body main() takes from the answer has fewer than MinWords words.
ShortBody ==
    /\ generated_content # <<>>
    /\ parse_llm_response(generated_content).word_count < 400

\* C13: a rewrite with a body under 400 words is skipped: skipped grows by
\* one, errors does not, no tag and no post is created, the loop goes on.
C13_ShortRewriteSkipped ==
    [][(ppc = "rewrite" /\ ShortBody) =>
          /\ stats' = [stats EXCEPT !.skipped = @ + 1]
          /\ wp_posts' = wp_posts
          /\ calls'.create = calls.create
          /\ tag_queue' = <<>>
          /\ ppc' = "article"
          /\ article' = NoArticle]_vars

\* The body of 250 words of the scenario: skipped is 1, no error, no post.
C13_Witness ==
    /\ generated_content = <<[key |-> "HEADLINE", words |-> 5, tags |-> <<>>],
                             [key |-> "TAGS", words |-> 1, tags |-> <<"dji">>],
                             [key |-> "ARTICLE", words |-> 250, tags |-> <<>>]>>
    /\ ppc = "article"
    /\ stats.skipped = 1 /\ stats.errors = 0
    /\ wp_posts = <<>>

\* C14: an answer without a HEADLINE line, or without an ARTICLE line,
\* leads to no post.
C14_NoPostWithoutHeadline ==
    ArticlePosts # {} => HasLine("HEADLINE") /\ HasLine("ARTICLE")

\* C15: a search that fails gives the empty list and aborts nothing: the
\* fetch step always enters the article loop, from which the run goes on to
\* the next query, and after the last query the ledger is written.
C15_FailedSearchIsEmpty ==
    [][/\ \A resp \in SearchResponses(1) :
             resp.status # 200 => search_brave(resp) = <<>>
       /\ (ppc = "query" /\ qi < search_queries) =>
             ppc' = "article" /\ qi' = qi /\ search_queries' = search_queries
       /\ (ppc = "article" /\ articles = <<>>) =>
             ppc' = "query" /\ qi' = qi + 1
       /\ (ppc = "query" /\ qi >= search_queries) =>
             ppc' = "policy" /\ processed_file' \in save_processed(processed_urls)]_vars

\* Two queries that brought nothing, the ledger written.
C15_Witness ==
    /\ ppc = "policy"
    /\ search_queries = 2 /\ qi = 2
    /\ stats.fetched = 0
    /\ processed_file.exists

\* C16: no failure of a step of the article workflow ends the run before
\* the ledger is written.
C16_NoStepAbortsRun == ppc # "aborted"

\* C19: whatever the social call does, the post stays as it is, no further
\* status update is sent, nothing is raised and the run goes on to the next
\* query.
C19_SocialIsBestEffort ==
    [][ppc = "social" =>
          /\ wp_posts' = wp_posts
          /\ calls'.publish = calls.publish
          /\ processed_urls' = processed_urls
          /\ ppc' = "query" /\ qi' = qi + 1]_vars

\* A post was published, the social call was made, the ledger is written.
C19_Witness ==
    /\ HAS_SOCIAL
    /\ calls.social = 1
    /\ ArticlePosts \cap PublicPosts # {}
    /\ ppc = "policy"
    /\ processed_file.exists

\* C17: with the search key or the WordPress password missing the run ends
\* before any side effect: no fetch, no request, no post, no file written.
C17_ConfigErrorAbortsRun ==
    (BRAVE_API_KEY = "" \/ WP_APP_PASSWORD = "") =>
        /\ fetches = 0
        /\ calls = ZeroCalls
        /\ wp_posts = <<>>
        /\ processed_file = MissingFile

\* The file is missing or its content does not parse.
Broken(file) == ~file.exists \/ ~file.json

\* C18: loading a state file that is missing or corrupt gives the empty or
\* default state: no URL, the empty cache, no timestamp, the default status.
C18_BrokenFileLoadsEmpty ==
    [][/\ (fpc.ledger = "start" /\ fpc'.ledger = "loaded") =>
             /\ Broken(processed_file) => processed_urls' = {}
             /\ Broken(cache_file) => wp_cache' = {}
       /\ (~fpc.usage /\ fpc'.usage) =>
             (Broken(usage_file) => loaded_usage' = <<>>)
       /\ (~fpc.status /\ fpc'.status) =>
             (Broken(status_file) => loaded_status' = [running |-> FALSE, created |-> 0])]_vars

\* All four loaded: a corrupt ledger and a corrupt status file that held
\* something, no usage file, a corrupt cache.
C18_Witness ==
    /\ fpc = [ledger |-> "loaded", usage |-> TRUE, status |-> TRUE]
    /\ processed_file.exists /\ ~processed_file.json /\ processed_file.data # <<>>
    /\ cache_file.exists /\ ~cache_file.json /\ cache_file.data # {}
    /\ ~usage_file.exists
    /\ status_file.exists /\ ~status_file.json /\ status_file.data.running
    /\ processed_urls = {} /\ wp_cache = {} /\ loaded_usage = <<>>
    /\ ~loaded_status.running

\* C20: a save writes the set as it is, each URL once; the reload gives the
\* same set; the second save writes the same set as the first.
C20_LedgerRoundTrip ==
    [][/\ (fpc.ledger \in {"loaded", "reloaded"} /\ fpc'.ledger \in {"saved", "resaved"}) =>
             /\ Readable(processed_file')
             /\ Range(processed_file'.data) = processed_urls
             /\ Len(processed_file'.data) = Cardinality(processed_urls)
       /\ (fpc.ledger = "saved" /\ fpc'.ledger = "reloaded") =>
             processed_urls' = processed_urls
       /\ (fpc.ledger = "reloaded" /\ fpc'.ledger = "resaved") =>
             Range(processed_file'.data) = Range(processed_file.data)]_vars

\* Both URLs saved, reloaded and saved again.
C20_Witness ==
    /\ fpc.ledger = "resaved"
    /\ processed_urls = URLS
    /\ Range(processed_file.data) = URLS

\* A list of timestamps in non-decreasing order.
NonDecreasing(ts) == \A i, j \in DOMAIN ts : i <= j => ts[i] <= ts[j]

\* C21: the usage ledger gains one timestamp per successful generation and
\* none otherwise: the file changes only where generated is counted, by the
\* current time appended to what was there, before the upload is tried; a
\* failed attempt, a rate-limited post and the upload leave it as it is.
C21_OneTimestampPerGeneration ==
    [][/\ (usage_file' # usage_file \/ wstats'.generated = wstats.generated + 1) =>
             /\ wpc = "record" /\ image_url
             /\ wstats'.generated = wstats.generated + 1
             /\ load_usage' = Append(load_usage, now)
             /\ NonDecreasing(load_usage')
       /\ wpc \in {"loop", "primary", "fallback", "upload"} =>
             usage_file' = usage_file /\ wstats'.generated = wstats.generated]_vars

\* A second run: one image generated and recorded after the one of the first
\* run, its upload failed.
C21_Witness ==
    /\ wruns = 2
    /\ wpc = "returned"
    /\ wstats.generated = 1 /\ wstats.uploaded = 0 /\ wstats.failed = 1
    /\ wstats.attempted = 1
    /\ Len(load_usage) = 2

\* C22: after every record_usage the usage file holds no timestamp older
\* than 24 hours, so it holds at most DAILY_CAP timestamps.
C22_UsageFilePruned ==
    [][(wpc = "record" /\ wpc' = "upload") =>
          /\ \A i \in DOMAIN load_usage' : load_usage'[i] > now - DaySeconds
          /\ Len(load_usage') <= DAILY_CAP]_vars

\* C29: with CND_RUN_ENABLED "0" the worker does nothing: no step fetches
\* posts, enters the loop, calls a provider or touches the usage file.
C29_DisabledWorkerDoesNothing ==
    [][~RUN_ENABLED =>
          /\ wpc' \in {"idle", "returned"}
          /\ UNCHANGED <<usage_file, posts, image_url, wstats, provider_calls,
                         rate_limit_reached>>]_vars

\* The disabled worker was started twice; the usage file is as it was.
C29_Witness ==
    /\ ~RUN_ENABLED
    /\ wruns = 2
    /\ wpc = "returned"
    /\ usage_file = save_usage(<<0>>)
    /\ provider_calls = 0

\* C30: there is no retry loop.  A rewrite request for a URL is sent once,
\* for the article in hand, and the run then leaves the rewrite step.  A
\* provider is called for the post in hand only: the primary once, on to the
\* record or to the fallback; the fallback once, only after the primary
\* returned no image, and then the post is done.
C30_NoRetryLoop ==
    [][/\ \A u \in URLS : RewriteSent(u) =>
             /\ ppc = "rewrite" /\ article.url = u /\ ppc' # "rewrite"
             /\ calls'.llm[u] = 1
       /\ provider_calls' > provider_calls =>
             /\ provider_calls' = provider_calls + 1
             /\ \/ wpc = "primary" /\ wpc' \in {"record", "fallback"}
                \/ /\ wpc = "fallback" /\ ~image_url
                   /\ wpc' = "loop" /\ posts' = Tail(posts)
             /\ provider_calls' <= 2 * wstats'.attempted]_vars

\* The worker: two posts, for each the primary and the fallback were called.
\* The pipeline: two articles rewritten in one run.
C30_Witness ==
    \/ wpc = "returned" /\ posts = <<>> /\ provider_calls = 4 /\ wstats.failed = 2
    \/ ppc = "done" /\ \A u \in URLS : calls.llm[u] = 1

\* The number of queries of this run that used key k.
Served(k) == Cardinality({i \in DOMAIN keys_used : keys_used[i] = k})

\* ceil(q / n).
CeilDiv(q, n) == (q + n - 1) \div n

\* C26: with n keys the i-th query (from 0) of a run uses key number
\* i mod n, and no key serves more than ceil(Q/n) of Q queries.
C26_KeysRoundRobin ==
    LET n == Len(run_keys)
    IN /\ n >= 1
       /\ \A i \in DOMAIN keys_used : keys_used[i] = run_keys[((i - 1) % n) + 1]
       /\ \A k \in Range(run_keys) : Served(k) <= CeilDiv(Len(keys_used), n)

\* Two keys, three queries: the first key is used again for the third.
C26_Witness ==
    /\ brave_keys = <<"k1", "k2">>
    /\ keys_used = <<"k1", "k2", "k1">>
    /\ ppc = "policy"

\* The rewrite requests of this run.
RewritesSent == calls.llm["http://example.com/a"] + calls.llm["http://example.com/b"]

\* C25: with MAX_ARTICLES = N a run submits at most N articles for rewriting.
C25_LimitBoundsRun ==
    MAX_ARTICLES # NoLimit => RewritesSent <= MAX_ARTICLES

\* C24: every run terminates: a process_posts that has started returns,
\* whatever the collaborators do.
C24_EveryRunTerminates ==
    (wpc \in {"loop", "primary", "fallback", "record", "upload"}) ~> (wpc = "returned")

\* C23: in one run at most one create request is sent per term name.
C23_OneCreatePerTerm ==
    \A name \in TagNames : calls.tag[name] <= 1

\* What the feeds and the search returned to the query being fetched.
Returned == Range(fetch_answers.rss_articles) \cup Range(search_brave(fetch_answers.brave))

UnknownAge(a) == article_age_days(a) = NoneAge

\* The step that fetches, and the step that examines an article of unknown
\* age whose URL is not in the ledger.
FetchStep == ppc = "query" /\ ppc' = "article"
ExamineUnknown ==
    /\ ppc = "article" /\ articles # <<>>
    /\ UnknownAge(Head(articles))
    /\ Head(articles).url \notin processed_urls

\* C27: an article of unknown age is eligible: no age or freshness filter
\* drops it, and with its URL not in the ledger it reaches the rewrite.
C27_UnknownAgeEligible ==
    [][/\ FetchStep => \A a \in Returned : UnknownAge(a) => a \in Range(articles')
       /\ ExamineUnknown => ppc' = "rewrite" /\ article' = Head(articles)]_vars

\* C27 as amended: the 7-day filter never drops an article of unknown age:
\* with its URL not in the ledger it reaches the rewrite; every feed item is
\* a candidate, and a search result is one only when its age is known, at
\* most one day, and it has an image.
C27_UnknownAgePassesSevenDayFilter ==
    [][/\ FetchStep =>
             /\ \A a \in Range(fetch_answers.rss_articles) : a \in Range(articles')
             /\ \A a \in Range(search_brave(fetch_answers.brave)) :
                   a \in Range(articles') <=>
                       /\ ~UnknownAge(a) /\ article_age_days(a) <= BraveMaxAgeDays
                       /\ a.image
       /\ ExamineUnknown => ppc' = "rewrite" /\ article' = Head(articles)]_vars

\* A feed item of unknown age is at the rewrite; the search result of
\* unknown age that came with it was dropped.
C27_Witness ==
    /\ ppc = "rewrite"
    /\ article.source = "rss" /\ UnknownAge(article)
    /\ \E a \in Range(search_brave(fetch_answers.brave)) : UnknownAge(a) /\ a.image
    /\ articles = <<>>

\* A text without whitespace at its ends and with single spaces inside.
Normalized(s) ==
    /\ s # <<>> => ~Head(s).ws /\ ~s[Len(s)].ws
    /\ \A i \in DOMAIN s : s[i].ws => s[i].len = 1
    /\ \A i \in DOMAIN s : (i > 1 /\ s[i].ws) => ~s[i - 1].ws

\* C28: every article a fetcher emits has title and description trimmed and
\* collapsed, the title at most 220, the description at most 800 and the URL
\* at most 500 characters long.
C28_EmittedArticleNormalized ==
    emitted # NoEmitted =>
        /\ Normalized(emitted.title) /\ text_len(emitted.title) <= 220
        /\ Normalized(emitted.description) /\ text_len(emitted.description) <= 800
        /\ text_len(emitted.url) <= 500

\* A request of the step was sent in this step.
TagSent == \E name \in TagNames : calls'.tag[name] > calls.tag[name]
PublishSent == calls'.publish > calls.publish
SocialSent == calls'.social > calls.social

\* C31: the steps of an article come in the order dedup, rewrite, tags,
\* create, media upload, featured image, publish, social post, and a step is
\* attempted only when every step before it succeeded.
C31_StepsOnlyAfterSuccess ==
    [][/\ \A u \in URLS : RewriteSent(u) =>
             ppc = "rewrite" /\ article.url = u /\ u \in processed_urls
       /\ TagSent => ppc = "tags" /\ calls.llm[article.url] = 1
       /\ \A u \in URLS : CreateSent(u) =>
             ppc = "tags" /\ article.url = u /\ calls.llm[u] = 1
       /\ ppc = "media" => post_id \in DOMAIN wp_posts
       /\ ppc = "featured" => post_id \in DOMAIN wp_posts /\ media_id # NoMedia
       /\ PublishSent =>
             /\ post_id \in DOMAIN wp_posts
             /\ media_id # NoMedia
             /\ wp_posts[post_id].featured_media = media_id
       /\ SocialSent =>
             /\ post_id \in DOMAIN wp_posts
             /\ wp_posts[post_id].featured_media # NoMedia
             /\ wp_posts[post_id].status = "publish"]_vars

\* C32: the social post is sent only for a post that is published: never
\* after a status update that failed or was not made.
C32_SocialOnlyForPublished ==
    [][SocialSent =>
          /\ ppc = "social"
          /\ post_id \in DOMAIN wp_posts
          /\ wp_posts[post_id].status = "publish"]_vars

\* A create request for a category was sent in this step.
CategoryRequested == Len(category_requests') > Len(category_requests)

\* C33: sync_taxonomy sends a create request only for a name WordPress does
\* not have, whatever the case of the letters and whatever the fetch of the
\* categories returned, and a second run against a WordPress that has every
\* name of the structure sends none.
C33_CreateOnlyMissingCategory ==
    [][/\ CategoryRequested => ~on_wordpress(Head(todo))
       /\ (syncs >= 2 /\ \A i \in DOMAIN structure : on_wordpress(structure[i])) =>
             ~CategoryRequested]_vars

\* The worker is inside an iteration of the loop of process_posts.
InIteration == wpc \in {"primary", "fallback", "record", "upload"}

\* C36: after every iteration of process_posts attempted = uploaded + failed,
\* uploaded <= generated <= attempted and skipped = 0; a post under way is
\* the one attempted post that is neither uploaded nor failed yet.
C36_WorkerCountersAddUp ==
    /\ wstats.attempted = wstats.uploaded + wstats.failed + (IF InIteration THEN 1 ELSE 0)
    /\ wstats.uploaded <= wstats.generated
    /\ wstats.generated <= wstats.attempted
    /\ wstats.skipped = 0

\* A run that handled two posts: one uploaded, one generated but not uploaded.
C36_Witness ==
    /\ wpc = "returned"
    /\ wstats.attempted = 2
    /\ wstats.generated = 2
    /\ wstats.uploaded = 1
    /\ wstats.failed = 1

\* The queries of this run whose fetch was made.
QueriesStarted == IF ppc \in {"idle", "query", "policy", "done"} THEN qi ELSE qi + 1

\* C34: the status update of a post ends its query: the next step leaves the
\* article loop, no further article of the query is rewritten or posted, and
\* a run sends at most one status update per query.
C34_OnePublishPerQuery ==
    /\ [](calls.publish <= QueriesStarted)
    /\ [][/\ PublishSent => ppc = "publish" /\ ppc' \in {"social", "aborted"}
          /\ ppc = "social" =>
                /\ ppc' = "query" /\ qi' = qi + 1 /\ articles' = <<>>
                /\ \A u \in URLS : ~RewriteSent(u) /\ ~CreateSent(u)]_vars

\* The first of two fetched articles was published and the query ended: the
\* second article was never looked at.
C34_Witness ==
    /\ ppc = "query"
    /\ qi = 1
    /\ stats.fetched = 2
    /\ stats.skipped = 0
    /\ Cardinality(processed_urls) = 1
    /\ calls.publish = 1
    /\ \E p \in ArticlePosts : wp_posts[p].status = "publish"

\* C35: at the end of main() stats["created"] is the number of posts
\* create_wp_post created in the article loop, those published included.
C35_CreatedCountsEveryPost ==
    ppc \in {"policy", "done"} => stats.created = Cardinality(ArticlePosts)

\* C37: a URL is marked when it passes the dedup check, before its rewrite
\* request and whatever becomes of it; the marks of a run stay until its end
\* and are all in the ledger a completed run has written, so a URL that was
\* rewritten in a completed run is never rewritten again.
C37_FailedArticlesStayMarked ==
    /\ [](ppc \in {"policy", "done"} => processed_urls \subseteq LedgerOnDisk)
    /\ [][/\ \A u \in URLS : RewriteSent(u) =>
                u \in processed_urls /\ u \notin LedgerOnDisk /\ calls.llm[u] = 0
          /\ ppc \notin {"idle", "done", "aborted"} => processed_urls \subseteq processed_urls'
          ]_vars

\* A run is over whose one rewrite failed: no post was asked for, and the URL
\* is in the ledger on disk.
C37_Witness ==
    /\ ppc = "policy"
    /\ stats.errors = 1
    /\ \E u \in URLS :
          /\ calls.llm[u] = 1
          /\ calls.create[u] = 0
          /\ u \in LedgerOnDisk

\* The posts on WordPress that were written from the article at a URL.
PostsOf(u) == {p \in ArticlePosts : wp_posts[p].source_url = u}

\* C38: no URL gets a second post, also when the run that created its post
\* was ended before its end by a crash, a kill or an exception.
C38_NoSecondPostAfterInterruption ==
    \A u \in URLS : Cardinality(PostsOf(u)) <= 1

\* Both processes of main() have written the ledger.
BothSaved == \A p \in ProcIds : procs[p].pc = "saved"

\* The ledger holds what both processes handled, and they handled no URL
\* in common.
UnionAndNoDuplicate ==
    /\ procs[1].handled \cup procs[2].handled \subseteq LedgerOnDisk
    /\ procs[1].handled \cap procs[2].handled = {}

\* C39: after two runs that overlapped in any way the ledger holds the URLs
\* of both and no URL was handled by both.
C39_OverlappingRunsKeepLedger == BothSaved => UnionAndNoDuplicate

\* C39 as amended: after two runs of which one loaded the ledger only after
\* the other had saved it, the ledger holds the URLs of both and no URL was
\* handled by both.
C39_SerialRunsKeepLedger ==
    (BothSaved /\ \A p \in ProcIds : ~procs[p].overlapped) => UnionAndNoDuplicate

\* Two runs one after the other, each of which handled a URL.
C39_Witness ==
    /\ BothSaved
    /\ \A p \in ProcIds : ~procs[p].overlapped /\ procs[p].handled # {}

\* The timestamps the two workers recorded.
AllStamps == workers[1].stamps \o workers[2].stamps

\* Every recorded timestamp is in the usage file, and the generations of the
\* trailing hour are within the hourly cap.
NoneLostAndCapHolds ==
    /\ Len(load_usage) = Len(AllStamps)
    /\ Len(prune(AllStamps, HourSeconds)) <= HOURLY_CAP

\* C40: with two workers at the same time, in any interleaving, no recorded
\* timestamp is lost and the generations of the trailing hour stay within
\* HOURLY_CAP.
C40_ConcurrentWorkersKeepLimit == NoneLostAndCapHolds

\* C40 as amended: as long as no worker passed can_generate while the other
\* was between its own can_generate and the save of its record_usage, no
\* recorded timestamp is lost and the generations of the trailing hour stay
\* within HOURLY_CAP.
C40_SerialWorkersKeepLimit ==
    (\A w \in ProcIds : ~workers[w].overlapped) => NoneLostAndCapHolds

\* Both workers recorded a generation, one after the other, and the second
\* of them was then stopped by the limiter.
C40_Witness ==
    /\ \A w \in ProcIds :
          /\ ~workers[w].overlapped
          /\ workers[w].stamps # <<>>
          /\ workers[w].pc = "returned"
    /\ \E w \in ProcIds : workers[w].left > 0

====
